---- MODULE Spec2Model ----
(***************************************************************************)
(* Feature-assembly pipeline of run/features.py and run/run_af2.py:        *)
(* the remote alignment client (runMMseqs2), the raw-input cache           *)
(* (getRawInputs), the per-chain feature builder (getChainFeatures) and    *)
(* the MSA pairer (pair_msa / pad_sequences).                              *)
(*                                                                         *)
(* Each part has its own specification over the shared variables; the      *)
(* variables of the other parts stay at their idle values.                 *)
(***************************************************************************)
EXTENDS Integers, Sequences, FiniteSets, TLC

(***************************************************************************)
(* Bounds of the model.                                                    *)
(***************************************************************************)
\* job ids the service hands out are 1..MaxId
MaxId == 2
\* invocations of runMMseqs2 against the same output prefix
MaxRuns == 2
\* sequences in one call of runMMseqs2 / chains in one query
MaxChains == 3
\* hit rows the service returns per entry of a result file
MaxHits == 1
\* queries in one run
MaxQueries == 2
\* distinct chains handed to pad_sequences
MaxDistinct == 2
\* copies of one chain in a query
MaxCopies == 2

(***************************************************************************)
(* Program constants.                                                      *)
(***************************************************************************)
\* time.sleep(5 + random.randint(0, 5))
BaseDelay == 5
MaxJitter == 5
\* N, REDO = 101, True
N0 == 101
\* def chain_break(idx_res, Ls, length=200)
ChainBreakLength == 200

VARIABLES
    \* ---- runMMseqs2: control and locals
    pc,          \* position in runMMseqs2
    mode,        \* service mode of the current invocation
    out,         \* the dict returned by the last submit()/status()
    ID,          \* job id read from out['id'] (0: not assigned yet)
    REDO,        \* the loop flag
    tarOnDisk,   \* modes whose <prefix>_<mode>/out.tar.gz exists
    a3mOnDisk,   \* modes whose <prefix>_<mode>/uniref.a3m exists
    runs,        \* invocations started so far
    \* ---- runMMseqs2: observation of the traffic with the service
    lastReq,     \* kind of the latest request of this invocation
    prevStatus,  \* status of the response that preceded lastReq
    lastDelay,   \* seconds slept between that response and lastReq
    lastBody,    \* raw status of the latest response body
    slept,       \* seconds slept since the latest response
    completeIds, \* job ids for which a COMPLETE response was received
    downloaded,  \* job id whose archive was requested (0: none)
    errorSeen,   \* an ERROR response was received in this invocation
    reqAfterError, \* a request was made after that ERROR response
    runNet,      \* this invocation sent a request to the service
    runExtract,  \* this invocation extracted the archive
    repeatRun,   \* an earlier invocation downloaded and extracted this mode
    fetched,     \* modes downloaded and extracted by a returned invocation
    \* ---- runMMseqs2: the data path (submit, result files, demultiplexing)
    dpc,         \* position in the data path
    seqsIn,      \* the argument sequences
    envIn,       \* the argument use_env
    hitsIn,      \* hit rows per entry in the service's result files
    unique_seqs, \* sorted(list(set(sequences)))
    Ms,          \* the tag of every input position
    query,       \* the lines of the query text posted to the service
    files,       \* the .a3m files extracted from the archive, as lines
    fileIdx,     \* index of the file being read
    lineIdx,     \* index of the next line of that file
    update_M,    \* the demultiplexer's resynchronisation flag
    M,           \* the demultiplexer's current tag (0: None)
    a3m_lines,   \* tag -> lines gathered so far
    dErr,        \* the exception the data path raised ("ok": none)
    result,      \* the returned list of alignment texts
    \* ---- main / getRawInputs
    mpc,          \* position in main
    queries,      \* the parsed queries: a list of lists of residue strings
    msa_mode,     \* args.msa_mode
    use_templates, \* args.use_templates
    disk,         \* service mode -> what <output_dir>/mmseqs2_<mode> holds
    raw_inputs,   \* the raw-input cache: residue string -> (a3m, templates)
    mErr,         \* the exception that ended the run ("ok": none)
    netReq,       \* this run sent a request to the alignment service
    apiCalls,     \* calls of runMMseqs2 in this run
    mruns,        \* runs started against the output directory
    \* ---- main: the loop over models and queries
    customMsa,    \* args.custom_msa_path: given or not, and the files there
    customTmpl,   \* args.custom_template_path is given
    model_names,  \* the model names of the run
    modelIdx,     \* index of the model of the current iteration
    queryIdx,     \* index of the query of the current iteration
    features_for_chain, \* what getChainFeatures returned for the query
    input_features,     \* what getInputFeatures returned for the query
    errAt,        \* the function that raised mErr ("none": none)
    \* ---- pad_sequences
    ppc,          \* position in pad_sequences
    pTexts,       \* the argument a3m_lines: one alignment text per chain
    pSeqs,        \* the argument query_sequences
    pCard,        \* the argument query_cardinality
    blank,        \* _blank_seq
    pN,           \* the loop variable n (1-based here)
    pJ,           \* the loop variable j
    pPos,         \* pos
    combined,     \* a3m_lines_combined
    origin,       \* per combined line: the chain instance and line it is from
    padOut,       \* the returned text
    \* ---- one call of getChainFeatures and of getInputFeatures
    fpc,          \* position of the caller
    fSeqs,        \* the argument sequences
    fRaw,         \* the argument raw_inputs
    fUt,          \* the argument use_templates
    fCtmpl,       \* whether custom_template_path is given
    fUm,          \* the argument use_multimer
    fOut,         \* what getChainFeatures returned or raised
    fIn           \* what getInputFeatures returned

clientVars == <<pc, mode, out, ID, REDO, tarOnDisk, a3mOnDisk, runs,
                lastReq, prevStatus, lastDelay, lastBody, slept, completeIds,
                downloaded, errorSeen, reqAfterError, runNet, runExtract,
                repeatRun, fetched>>

demuxVars == <<dpc, seqsIn, envIn, hitsIn, unique_seqs, Ms, query, files,
               fileIdx, lineIdx, update_M, M, a3m_lines, dErr, result>>

rawVars == <<mpc, queries, msa_mode, use_templates, disk, raw_inputs, mErr,
             netReq, apiCalls, mruns>>

mainVars == <<customMsa, customTmpl, model_names, modelIdx, queryIdx,
              features_for_chain, input_features, errAt>>

padVars == <<ppc, pTexts, pSeqs, pCard, blank, pN, pJ, pPos, combined,
             origin, padOut>>

featVars == <<fpc, fSeqs, fRaw, fUt, fCtmpl, fUm, fOut, fIn>>

vars == <<clientVars, demuxVars, rawVars, mainVars, padVars, featVars>>

\* the variables each part leaves alone
nonClientVars == <<demuxVars, rawVars, mainVars, padVars, featVars>>
nonDemuxVars == <<clientVars, rawVars, mainVars, padVars, featVars>>
nonRawVars == <<clientVars, demuxVars, mainVars, padVars, featVars>>
nonMainVars == <<clientVars, demuxVars, padVars, featVars>>
nonPadVars == <<clientVars, demuxVars, rawVars, mainVars, featVars>>
nonFeatVars == <<clientVars, demuxVars, rawVars, mainVars, padVars>>

(***************************************************************************)
(* The service protocol.                                                   *)
(***************************************************************************)
NoId == 0
Ids == 1..MaxId

\* the status strings the client tests for, and one it does not know
Statuses == {"UNKNOWN", "RATELIMIT", "RUNNING", "PENDING", "COMPLETE",
             "ERROR", "MAINTENANCE"}

\* a response body: JSON with a status and possibly an id, or not JSON
Bodies == [status : Statuses \cup {"BADJSON"}, id : {NoId} \cup Ids]

\* res.json(), and on ValueError {'status': 'UNKNOWN'}
ResJson(body) ==
    IF body.status = "BADJSON"
    THEN [status |-> "UNKNOWN", id |-> NoId]
    ELSE body

Modes == {"env", "all", "env-nofilter", "nofilter"}

\* mode = 'env' if use_env else 'all' / 'env-nofilter' if use_env else 'nofilter'
Mode(use_env, use_filter) ==
    IF use_filter
    THEN (IF use_env THEN "env" ELSE "all")
    ELSE (IF use_env THEN "env-nofilter" ELSE "nofilter")

(***************************************************************************)
(* runMMseqs2, lines 135-179: the decisions of the service loop.           *)
(***************************************************************************)
\* a client that asks the service whatever is on disk
NeedApiAlways(tars, m) == TRUE

\* if not os.path.isfile(tar_gz_file):
NeedApi(tars, m) == m \notin tars

\* while out['status'] in ['UNKNOWN', 'RATELIMIT']:
ResubmitWhile(st) == st \in {"UNKNOWN", "RATELIMIT"}

\* while out['status'] in ['UNKNOWN', 'RUNNING', 'PENDING']:
PollWhile(st) == st \in {"UNKNOWN", "RUNNING", "PENDING"}

\* a client that stops on every status but ERROR
RedoAfterNotError(st, redo) == IF st # "ERROR" THEN FALSE ELSE redo

\* if out['status'] == 'COMPLETE': REDO = False
RedoAfter(st, redo) == IF st = "COMPLETE" THEN FALSE ELSE redo

\* a client that forgets to raise
RaisesNever(st) == FALSE

\* a client that gives up when the poll loop ends without COMPLETE
RaisesUnlessComplete(st) == st # "COMPLETE"

\* if out['status'] == 'ERROR': REDO = False; raise Exception(...)
RaisesAfter(st) == st = "ERROR"

\* if not os.path.isfile(a3m_files[0]):
NeedExtract(a3ms, m) == m \notin a3ms

ClientInit ==
    /\ pc = "init"
    /\ mode = "all"
    /\ out = [status |-> "NONE", id |-> NoId]
    /\ ID = NoId
    /\ REDO = TRUE
    /\ tarOnDisk = {}
    /\ a3mOnDisk = {}
    /\ runs = 0
    /\ lastReq = "none"
    /\ prevStatus = "NONE"
    /\ lastDelay = 0
    /\ lastBody = "NONE"
    /\ slept = 0
    /\ completeIds = {}
    /\ downloaded = NoId
    /\ errorSeen = FALSE
    /\ reqAfterError = FALSE
    /\ runNet = FALSE
    /\ runExtract = FALSE
    /\ repeatRun = FALSE
    /\ fetched = {}

\* what every request to the service records
Request(kind) ==
    /\ lastReq' = kind
    /\ prevStatus' = out.status
    /\ lastDelay' = slept
    /\ reqAfterError' = (reqAfterError \/ errorSeen)
    /\ runNet' = TRUE

\* what every response of the service records
Response(body) ==
    /\ out' = ResJson(body)
    /\ lastBody' = body.status
    /\ slept' = 0
    /\ errorSeen' = (errorSeen \/ ResJson(body).status = "ERROR")

\* lines 126-146: a new invocation; the disk is what earlier ones left
Start ==
    /\ UNCHANGED nonClientVars
    /\ pc \in {"init", "returned", "raised"}
    /\ runs < MaxRuns
    /\ \E use_env \in BOOLEAN, use_filter \in BOOLEAN :
         /\ mode' = Mode(use_env, use_filter)
         /\ pc' = IF NeedApi(tarOnDisk, Mode(use_env, use_filter))
                  THEN "submit" ELSE "extract"
         /\ repeatRun' = (Mode(use_env, use_filter) \in fetched)
    /\ runs' = runs + 1
    /\ out' = [status |-> "NONE", id |-> NoId]
    /\ ID' = NoId
    /\ REDO' = TRUE
    /\ lastReq' = "none"
    /\ prevStatus' = "NONE"
    /\ lastDelay' = 0
    /\ lastBody' = "NONE"
    /\ slept' = 0
    /\ completeIds' = {}
    /\ downloaded' = NoId
    /\ errorSeen' = FALSE
    /\ reqAfterError' = FALSE
    /\ runNet' = FALSE
    /\ runExtract' = FALSE
    /\ UNCHANGED <<tarOnDisk, a3mOnDisk, fetched>>

\* lines 149 and 153: out = submit(...), then the test of line 150
Submit ==
    /\ UNCHANGED nonClientVars
    /\ pc = "submit"
    /\ \E body \in Bodies :
         /\ Request("submit")
         /\ Response(body)
         /\ completeIds' =
              IF ResJson(body).status = "COMPLETE" /\ ResJson(body).id # NoId
              THEN completeIds \cup {ResJson(body).id} ELSE completeIds
         /\ pc' = IF ResubmitWhile(ResJson(body).status)
                  THEN "sleep_resubmit" ELSE "get_id"
    /\ UNCHANGED <<mode, ID, REDO, tarOnDisk, a3mOnDisk, runs, downloaded,
                   runExtract, repeatRun, fetched>>

\* line 152: time.sleep(5 + random.randint(0, 5))
SleepResubmit ==
    /\ UNCHANGED nonClientVars
    /\ pc = "sleep_resubmit"
    /\ \E jitter \in 0..MaxJitter : slept' = BaseDelay + jitter
    /\ pc' = "submit"
    /\ UNCHANGED <<mode, out, ID, REDO, tarOnDisk, a3mOnDisk, runs, lastReq,
                   prevStatus, lastDelay, lastBody, completeIds, downloaded,
                   errorSeen, reqAfterError, runNet, runExtract, repeatRun,
                   fetched>>

\* line 156: ID = out['id'] (KeyError without the key), then the test of 157
GetID ==
    /\ UNCHANGED nonClientVars
    /\ pc = "get_id"
    /\ IF out.id = NoId
       THEN /\ pc' = "raised"
            /\ ID' = ID
       ELSE /\ ID' = out.id
            /\ pc' = IF PollWhile(out.status) THEN "sleep_poll" ELSE "check"
    /\ UNCHANGED <<mode, out, REDO, tarOnDisk, a3mOnDisk, runs, lastReq,
                   prevStatus, lastDelay, lastBody, slept, completeIds,
                   downloaded, errorSeen, reqAfterError, runNet, runExtract,
                   repeatRun, fetched>>

\* line 158: time.sleep(5 + random.randint(0, 5))
SleepPoll ==
    /\ UNCHANGED nonClientVars
    /\ pc = "sleep_poll"
    /\ \E jitter \in 0..MaxJitter : slept' = BaseDelay + jitter
    /\ pc' = "status"
    /\ UNCHANGED <<mode, out, ID, REDO, tarOnDisk, a3mOnDisk, runs, lastReq,
                   prevStatus, lastDelay, lastBody, completeIds, downloaded,
                   errorSeen, reqAfterError, runNet, runExtract, repeatRun,
                   fetched>>

\* line 159: out = status(ID), then the test of line 157
Status ==
    /\ UNCHANGED nonClientVars
    /\ pc = "status"
    /\ \E body \in Bodies :
         /\ Request("status")
         /\ Response(body)
         /\ completeIds' =
              IF ResJson(body).status = "COMPLETE"
              THEN completeIds \cup {ID} ELSE completeIds
         /\ pc' = IF PollWhile(ResJson(body).status)
                  THEN "sleep_poll" ELSE "check"
    /\ UNCHANGED <<mode, ID, REDO, tarOnDisk, a3mOnDisk, runs, downloaded,
                   runExtract, repeatRun, fetched>>

\* lines 161-168, then the test of line 147
Check ==
    /\ UNCHANGED nonClientVars
    /\ pc = "check"
    /\ REDO' = (IF RaisesAfter(out.status) THEN FALSE
                ELSE RedoAfter(out.status, REDO))
    /\ pc' = IF RaisesAfter(out.status) THEN "raised"
             ELSE IF RedoAfter(out.status, REDO) THEN "submit"
             ELSE "download"
    /\ UNCHANGED <<mode, out, ID, tarOnDisk, a3mOnDisk, runs, lastReq,
                   prevStatus, lastDelay, lastBody, slept, completeIds,
                   downloaded, errorSeen, reqAfterError, runNet, runExtract,
                   repeatRun, fetched>>

\* line 170: download(ID, tar_gz_file)
Download ==
    /\ UNCHANGED nonClientVars
    /\ pc = "download"
    /\ Request("download")
    /\ downloaded' = ID
    /\ tarOnDisk' = tarOnDisk \cup {mode}
    /\ pc' = "extract"
    /\ UNCHANGED <<mode, out, ID, REDO, a3mOnDisk, runs, lastBody, slept,
                   completeIds, errorSeen, runExtract, repeatRun, fetched>>

\* lines 173-179: tar_gz.extractall(out_path) unless uniref.a3m is there
Extract ==
    /\ UNCHANGED nonClientVars
    /\ pc = "extract"
    /\ IF NeedExtract(a3mOnDisk, mode)
       THEN /\ a3mOnDisk' = a3mOnDisk \cup {mode}
            /\ runExtract' = TRUE
       ELSE UNCHANGED <<a3mOnDisk, runExtract>>
    /\ pc' = "read"
    /\ UNCHANGED <<mode, out, ID, REDO, tarOnDisk, runs, lastReq, prevStatus,
                   lastDelay, lastBody, slept, completeIds, downloaded,
                   errorSeen, reqAfterError, runNet, repeatRun, fetched>>

\* lines 214-251: the alignments are read from the files and returned
ReadResults ==
    /\ UNCHANGED nonClientVars
    /\ pc = "read"
    /\ pc' = "returned"
    /\ fetched' = IF downloaded # NoId /\ runExtract
                  THEN fetched \cup {mode} ELSE fetched
    /\ UNCHANGED <<mode, out, ID, REDO, tarOnDisk, a3mOnDisk, runs, lastReq,
                   prevStatus, lastDelay, lastBody, slept, completeIds,
                   downloaded, errorSeen, reqAfterError, runNet, runExtract,
                   repeatRun>>

ClientNext ==
    \/ Start
    \/ Submit
    \/ SleepResubmit
    \/ GetID
    \/ SleepPoll
    \/ Status
    \/ Check
    \/ Download
    \/ Extract
    \/ ReadResults

(***************************************************************************)
(* Claims about the service loop of runMMseqs2 (under SpecClient).         *)
(***************************************************************************)
Delays == BaseDelay..(BaseDelay + MaxJitter)

\* C1: the result archive is requested only after a COMPLETE response was
\* received for the job id that is downloaded; no other status (UNKNOWN,
\* RATELIMIT, RUNNING, PENDING, ERROR, an unparseable body, an unrecognised
\* status string) leads to a download.
C1_DownloadOnlyAfterComplete ==
    /\ pc = "download" => (out.status = "COMPLETE" /\ ID \in completeIds)
    /\ lastReq = "download" =>
         /\ prevStatus = "COMPLETE"
         /\ lastBody = "COMPLETE"
         /\ downloaded \in completeIds
    /\ downloaded # NoId => downloaded \in completeIds

\* C1 witness: an archive was requested for a job that a status poll
\* reported COMPLETE.
C1_Witness ==
    /\ pc = "extract"
    /\ lastReq = "download"
    /\ downloaded = ID
    /\ ID \in completeIds
    /\ out.id # ID

\* C2: after an ERROR response (to a submission or to a poll) the run makes
\* no further submission, poll or download, returns no alignment, and ends
\* by raising.
C2_ErrorAborts ==
    errorSeen =>
        /\ ~reqAfterError
        /\ pc \in {"get_id", "check", "raised"}
        /\ downloaded = NoId
        /\ lastBody = "ERROR"

\* C2 witness: a status poll answered ERROR and the run has raised.
C2_Witness ==
    /\ errorSeen
    /\ pc = "raised"
    /\ lastReq = "status"
    /\ ID # NoId

\* C3 (as claimed): after an UNKNOWN or RATELIMIT response the next request
\* is a re-submission made after the jittered delay, after a RUNNING or
\* PENDING response it is a status poll made after the jittered delay, and
\* no request follows a non-COMPLETE response without the delay.
C3_NextRequestAsClaimed ==
    lastReq # "none" =>
        /\ prevStatus \in {"UNKNOWN", "RATELIMIT"} =>
             (lastReq = "submit" /\ lastDelay \in Delays)
        /\ prevStatus \in {"RUNNING", "PENDING"} =>
             (lastReq = "status" /\ lastDelay \in Delays)
        /\ prevStatus \notin {"NONE", "COMPLETE"} => lastDelay \in Delays

\* C4: an invocation made after one that downloaded and extracted the
\* archive of the same output directory and mode sends no submission, status
\* poll or download, extracts nothing, and goes straight to reading the files
\* on disk.
C4_RepeatRunOffline ==
    repeatRun =>
        /\ ~runNet
        /\ ~runExtract
        /\ lastReq = "none"
        /\ pc \in {"extract", "read", "returned"}
        /\ mode \in tarOnDisk
        /\ mode \in a3mOnDisk

\* C4 witness: a repeat invocation has returned.
C4_Witness ==
    /\ repeatRun
    /\ pc = "returned"
    /\ runs = 2

(***************************************************************************)
(* One invocation of runMMseqs2 on a fresh output directory against a      *)
(* service that keeps to its protocol: the JSON answer to a submission     *)
(* carries the job id (SpecPoll).  The program is single-threaded and      *)
(* every sleep ends, so its steps are weakly fair; the service is fair to  *)
(* the jobs: polled again and again, it answers COMPLETE at some time.     *)
(* The modes are those getRawInputs asks for (use_filter keeps its         *)
(* default); of the sleeps the shortest and the longest are taken.         *)
(***************************************************************************)
StartOnce == Start /\ runs = 0 /\ mode' \in {Mode(e, TRUE) : e \in BOOLEAN}

ShortOrLong == slept' \in {BaseDelay, BaseDelay + MaxJitter}

SleepResubmitEnds == SleepResubmit /\ ShortOrLong

SleepPollEnds == SleepPoll /\ ShortOrLong

SubmitTicket == Submit /\ (ResubmitWhile(out'.status) \/ out'.id # NoId)

\* the service answers COMPLETE to a poll of job id
AnswerComplete(id) == Status /\ ID = id /\ out'.status = "COMPLETE"

PollNext ==
    \/ StartOnce
    \/ SubmitTicket
    \/ SleepResubmitEnds
    \/ GetID
    \/ SleepPollEnds
    \/ Status
    \/ Check
    \/ Download
    \/ Extract
    \/ ReadResults

PollFairness ==
    /\ WF_vars(PollNext)
    /\ SF_vars(\E id \in Ids : AnswerComplete(id))

\* the service has answered nothing but UNKNOWN (or no JSON), RATELIMIT,
\* RUNNING or PENDING
WaitingOnly ==
    lastBody \in {"NONE", "BADJSON", "UNKNOWN", "RATELIMIT", "RUNNING",
                  "PENDING"}

\* the loop of lines 147-168 has been left
LoopLeft == pc \in {"download", "extract", "read", "returned", "raised"}

\* the loop is left only on COMPLETE, to the download, or on ERROR, raising
C14_EndsOnlyOnCompleteOrError ==
    /\ pc \in {"download", "extract", "read", "returned"} =>
         (lastBody = "COMPLETE" /\ ID \in completeIds)
    /\ pc = "raised" => (lastBody = "ERROR" /\ errorSeen)
    /\ pc = "raised" => downloaded = NoId

\* against a service that never answers anything else the client never
\* returns or raises, and sends requests for ever
C14_WaitsForEver ==
    []WaitingOnly =>
        /\ []~LoopLeft
        /\ []<>(pc \in {"submit", "status"})

\* a client that polls again and again reaches the download, unless the
\* service answers ERROR
C14_FairServiceDownloads ==
    []<>(pc = "status") => <>(pc = "download" \/ errorSeen)

\* C14: the loop of runMMseqs2 has no bound on attempts.  It ends only when
\* COMPLETE is received (the download follows) or ERROR is received (the
\* exception is raised); while the service answers only UNKNOWN, RATELIMIT,
\* RUNNING or PENDING the client neither returns nor raises and goes on
\* sending requests; and if the service answers COMPLETE at some time to any
\* job polled again and again, the client reaches the download.
C14_UnboundedPolling ==
    /\ []C14_EndsOnlyOnCompleteOrError
    /\ C14_WaitsForEver
    /\ C14_FairServiceDownloads

\* C14 witness: a poll sent after a PENDING answer and the jittered delay was
\* answered COMPLETE, and the client is about to download.
C14_Witness ==
    /\ pc = "download"
    /\ lastReq = "status"
    /\ prevStatus = "PENDING"
    /\ lastDelay \in Delays
    /\ lastBody = "COMPLETE"

(***************************************************************************)
(* Text.  A residue string is a sequence of characters; a line of an       *)
(* alignment file is a record: nul (the line holds a \x00 byte), gt (the   *)
(* line, nulls removed, starts with '>'), num (int() of what follows the   *)
(* '>', -1 when that is no integer) and row (the residue string of a line  *)
(* that is no header).  A text is the sequence of its lines.               *)
(***************************************************************************)
\* the residue strings of the model
SeqPool == { <<"A">>, <<"A", "C">>, <<"G">> }

\* ord() of the characters used
Code(c) ==
    CASE c = "-" -> 45
      [] c = "A" -> 65
      [] c = "C" -> 67
      [] c = "G" -> 71
      [] c = "a" -> 97
      [] OTHER   -> 0

Range(f) == { f[i] : i \in DOMAIN f }

\* Python's < on strings
RECURSIVE StrLess(_, _)
StrLess(a, b) ==
    IF b = <<>> THEN FALSE
    ELSE IF a = <<>> THEN TRUE
    ELSE IF Code(Head(a)) < Code(Head(b)) THEN TRUE
    ELSE IF Code(Head(a)) > Code(Head(b)) THEN FALSE
    ELSE StrLess(Tail(a), Tail(b))

\* sorted(list(S))
RECURSIVE Sorted(_)
Sorted(S) ==
    IF S = {} THEN <<>>
    ELSE LET m == CHOOSE x \in S : \A y \in S : x = y \/ StrLess(x, y)
         IN  <<m>> \o Sorted(S \ {m})

\* list.index(x), 0-based
IndexOf(list, x) ==
    (CHOOSE i \in DOMAIN list :
        list[i] = x /\ \A j \in 1..(i - 1) : list[j] # x) - 1

HeaderLine(n) == [nul |-> FALSE, gt |-> TRUE, num |-> n, row |-> <<>>]
RowLine(r)    == [nul |-> FALSE, gt |-> FALSE, num |-> -1, row |-> r]
EmptyLine     == [nul |-> FALSE, gt |-> FALSE, num |-> -1, row |-> <<>>]

\* ''.join(lines): a line with no character adds nothing to the text
RECURSIVE Join(_)
Join(lines) ==
    IF lines = <<>> THEN <<>>
    ELSE IF Head(lines) = EmptyLine THEN Join(Tail(lines))
    ELSE <<Head(lines)>> \o Join(Tail(lines))

(***************************************************************************)
(* runMMseqs2, lines 92-108 and 139-143: the query.                        *)
(***************************************************************************)
\* unique_seqs = sorted(list(set(sequences)))
UniqueSeqs(sequences) == Sorted(Range(sequences))

\* tags taken from the position in the input list instead
MsByPosition(sequences, uniq) ==
    [k \in DOMAIN sequences |-> N0 + IndexOf(sequences, sequences[k])]

\* Ms = [N + unique_seqs.index(seq) for seq in sequences]
MsOf(sequences, uniq) ==
    [k \in DOMAIN sequences |-> N0 + IndexOf(uniq, sequences[k])]

\* submit(): query += f'>{n}\n{seq}\n' for n = N, N+1, ...
RECURSIVE MakeQuery(_, _)
MakeQuery(seqs, n) ==
    IF seqs = <<>> THEN <<>>
    ELSE <<HeaderLine(n), RowLine(Head(seqs))>> \o MakeQuery(Tail(seqs), n + 1)

(***************************************************************************)
(* The service's result files for a query: per query entry a header with   *)
(* the tag, the query row and h hit rows; entries are terminated by a      *)
(* \x00 byte, which lands in front of the next entry's header line and     *)
(* alone on the last line.                                                 *)
(***************************************************************************)
\* an aligned hit row: the query with one residue deleted
HitRow(seq, db) ==
    IF db = "uniref"
    THEN <<"-">> \o Tail(seq)
    ELSE SubSeq(seq, 1, Len(seq) - 1) \o <<"-">>

HitHeader == HeaderLine(-1)

RECURSIVE Hits(_, _, _)
Hits(seq, db, h) ==
    IF h = 0 THEN <<>>
    ELSE <<HitHeader, RowLine(HitRow(seq, db))>> \o Hits(seq, db, h - 1)

\* the alignment of one tag in one database
Entry(tag, seq, db, h) ==
    <<HeaderLine(tag), RowLine(seq)>> \o Hits(seq, db, h)

WithNul(line) == [line EXCEPT !.nul = TRUE]

RECURSIVE EntriesOf(_, _, _, _)
EntriesOf(q, db, h, first) ==
    IF Len(q) < 2 THEN <<WithNul(EmptyLine)>>
    ELSE LET e == Entry(q[1].num, q[2].row, db, h)
         IN  (IF first THEN e ELSE <<WithNul(e[1])>> \o Tail(e))
             \o EntriesOf(SubSeq(q, 3, Len(q)), db, h, FALSE)

\* a3m_files: uniref.a3m, and with use_env bfd.mgnify30.metaeuk30.smag30.a3m
ServiceFiles(q, h, env) ==
    IF env
    THEN <<EntriesOf(q, "uniref", h, TRUE), EntriesOf(q, "env", h, TRUE)>>
    ELSE <<EntriesOf(q, "uniref", h, TRUE)>>

(***************************************************************************)
(* runMMseqs2, lines 214-233: the demultiplexer.                           *)
(***************************************************************************)
None == 0

\* line.replace('\x00', '')
StripNul(line) == [line EXCEPT !.nul = FALSE]

\* a demultiplexer that strips null bytes but does not re-arm update_M
DemuxLineNoResync(st, line0) ==
    LET line == IF line0.nul THEN StripNul(line0) ELSE line0
    IN  IF st.err # "ok" THEN st
        ELSE IF line.gt /\ st.update_M
        THEN IF line.num < 0
             THEN [st EXCEPT !.err = "ValueError"]
             ELSE LET d == IF line.num \in DOMAIN st.a3m THEN st.a3m
                           ELSE st.a3m @@ (line.num :> <<>>)
                  IN  [a3m      |-> [d EXCEPT ![line.num] = Append(@, line)],
                       update_M |-> FALSE,
                       M        |-> line.num,
                       err      |-> "ok"]
        ELSE IF st.M = None
             THEN [st EXCEPT !.err = "KeyError"]
             ELSE [st EXCEPT !.a3m[st.M] = Append(@, line)]

\* lines 219-230, one iteration of `for line in f`
DemuxLine(st, line0) ==
    LET line == IF line0.nul THEN StripNul(line0) ELSE line0
        upd  == st.update_M \/ line0.nul
    IN  IF st.err # "ok" THEN st
        ELSE IF line.gt /\ upd
        THEN IF line.num < 0
             THEN [st EXCEPT !.err = "ValueError", !.update_M = upd]
             ELSE LET d == IF line.num \in DOMAIN st.a3m THEN st.a3m
                           ELSE st.a3m @@ (line.num :> <<>>)
                  IN  [a3m      |-> [d EXCEPT ![line.num] = Append(@, line)],
                       update_M |-> FALSE,
                       M        |-> line.num,
                       err      |-> "ok"]
        ELSE IF st.M = None
             THEN [st EXCEPT !.err = "KeyError", !.update_M = upd]
             ELSE [st EXCEPT !.a3m[st.M] = Append(@, line), !.update_M = upd]

\* line 217: update_M, M = True, None
OpenFile(st) == [st EXCEPT !.update_M = TRUE, !.M = None]

\* line 233: a3m_lines = [''.join(a3m_lines[n]) for n in Ms]
ReturnOk(a3m, tags) == \A k \in DOMAIN tags : tags[k] \in DOMAIN a3m
ReturnLines(a3m, tags) == [k \in DOMAIN tags |-> Join(a3m[tags[k]])]

\* the lists of 1..n residue strings
SeqLists(n) == UNION { [1..k -> SeqPool] : k \in 1..n }

DemuxIdle ==
    /\ dpc = "idle"
    /\ seqsIn = <<>>
    /\ envIn = FALSE
    /\ hitsIn = 0
    /\ unique_seqs = <<>>
    /\ Ms = <<>>
    /\ query = <<>>
    /\ files = <<>>
    /\ fileIdx = 0
    /\ lineIdx = 0
    /\ update_M = TRUE
    /\ M = None
    /\ a3m_lines = <<>>
    /\ dErr = "ok"
    /\ result = <<>>

\* a call runMMseqs2(sequences, use_env) against a fresh output directory
DemuxInit ==
    /\ dpc = "start"
    /\ seqsIn \in SeqLists(MaxChains)
    /\ envIn \in BOOLEAN
    /\ hitsIn \in 0..MaxHits
    /\ unique_seqs = <<>>
    /\ Ms = <<>>
    /\ query = <<>>
    /\ files = <<>>
    /\ fileIdx = 0
    /\ lineIdx = 0
    /\ update_M = TRUE
    /\ M = None
    /\ a3m_lines = <<>>
    /\ dErr = "ok"
    /\ result = <<>>

\* lines 141-143: deduplicate and keep track of order
Dedup ==
    /\ UNCHANGED nonDemuxVars
    /\ dpc = "start"
    /\ unique_seqs' = UniqueSeqs(seqsIn)
    /\ Ms' = MsOf(seqsIn, UniqueSeqs(seqsIn))
    /\ dpc' = "submit"
    /\ UNCHANGED <<seqsIn, envIn, hitsIn, query, files, fileIdx, lineIdx,
                   update_M, M, a3m_lines, dErr, result>>

\* lines 149 and 95-102: the query text is posted
PostQuery ==
    /\ UNCHANGED nonDemuxVars
    /\ dpc = "submit"
    /\ query' = MakeQuery(unique_seqs, N0)
    /\ dpc' = "fetch"
    /\ UNCHANGED <<seqsIn, envIn, hitsIn, unique_seqs, Ms, files, fileIdx,
                   lineIdx, update_M, M, a3m_lines, dErr, result>>

\* lines 170-179: the archive for that query is downloaded and extracted
FetchFiles ==
    /\ UNCHANGED nonDemuxVars
    /\ dpc = "fetch"
    /\ files' = ServiceFiles(query, hitsIn, envIn)
    /\ fileIdx' = 1
    /\ dpc' = "open"
    /\ UNCHANGED <<seqsIn, envIn, hitsIn, unique_seqs, Ms, query, lineIdx,
                   update_M, M, a3m_lines, dErr, result>>

\* lines 216-218: for a3m_file in a3m_files: update_M, M = True, None
OpenA3m ==
    /\ UNCHANGED nonDemuxVars
    /\ dpc = "open"
    /\ IF fileIdx > Len(files)
       THEN /\ dpc' = "return"
            /\ UNCHANGED <<update_M, M, lineIdx>>
       ELSE /\ update_M' = TRUE
            /\ M' = None
            /\ lineIdx' = 1
            /\ dpc' = "lines"
    /\ UNCHANGED <<seqsIn, envIn, hitsIn, unique_seqs, Ms, query, files,
                   fileIdx, a3m_lines, dErr, result>>

\* lines 219-230: for line in f
ReadLine ==
    /\ UNCHANGED nonDemuxVars
    /\ dpc = "lines"
    /\ IF lineIdx > Len(files[fileIdx])
       THEN /\ fileIdx' = fileIdx + 1
            /\ dpc' = "open"
            /\ UNCHANGED <<lineIdx, update_M, M, a3m_lines, dErr>>
       ELSE LET st == DemuxLine([a3m |-> a3m_lines, update_M |-> update_M,
                                 M |-> M, err |-> "ok"],
                                files[fileIdx][lineIdx])
            IN  /\ a3m_lines' = st.a3m
                /\ update_M' = st.update_M
                /\ M' = st.M
                /\ dErr' = st.err
                /\ lineIdx' = lineIdx + 1
                /\ dpc' = IF st.err = "ok" THEN "lines" ELSE "raised"
                /\ UNCHANGED fileIdx
    /\ UNCHANGED <<seqsIn, envIn, hitsIn, unique_seqs, Ms, query, files,
                   result>>

\* lines 233-251: the alignment of every input position, in input order
ReturnA3m ==
    /\ UNCHANGED nonDemuxVars
    /\ dpc = "return"
    /\ IF ReturnOk(a3m_lines, Ms)
       THEN /\ result' = ReturnLines(a3m_lines, Ms)
            /\ dpc' = "returned"
            /\ UNCHANGED dErr
       ELSE /\ dErr' = "KeyError"
            /\ dpc' = "raised"
            /\ UNCHANGED result
    /\ UNCHANGED <<seqsIn, envIn, hitsIn, unique_seqs, Ms, query, files,
                   fileIdx, lineIdx, update_M, M, a3m_lines>>

DemuxNext ==
    \/ Dedup
    \/ PostQuery
    \/ FetchFiles
    \/ OpenA3m
    \/ ReadLine
    \/ ReturnA3m

(***************************************************************************)
(* Claims about the data path of runMMseqs2 (under SpecDemux).             *)
(***************************************************************************)
\* the alignment text the service computed for one tag and residue string
ServiceText(tag, seq, h, env) ==
    Entry(tag, seq, "uniref", h)
        \o (IF env THEN Entry(tag, seq, "env", h) ELSE <<>>)

\* C5: the service is sent each distinct sequence exactly once with tags
\* 101, 102, ...; the returned list has one alignment per input position, in
\* input order, output k being the alignment the service returned for the tag
\* of sequences[k]; so positions holding the same sequence get identical,
\* non-empty alignments.
C5_Demultiplexed ==
    /\ dpc \notin {"start", "submit"} =>
         /\ Len(query) = 2 * Cardinality(Range(seqsIn))
         /\ \A i \in 1..Cardinality(Range(seqsIn)) :
              /\ query[2 * i - 1] = HeaderLine(100 + i)
              /\ query[2 * i].gt = FALSE
              /\ query[2 * i].row \in Range(seqsIn)
         /\ \A s \in Range(seqsIn) :
              Cardinality({ i \in 1..Cardinality(Range(seqsIn)) :
                               query[2 * i].row = s }) = 1
    /\ dpc # "raised"
    /\ dpc = "returned" =>
         /\ Len(result) = Len(seqsIn)
         /\ \A k \in DOMAIN seqsIn :
              /\ \E i \in 1..Cardinality(Range(seqsIn)) :
                   /\ query[2 * i].row = seqsIn[k]
                   /\ result[k] =
                        ServiceText(query[2 * i - 1].num, seqsIn[k],
                                    hitsIn, envIn)
              /\ result[k] # <<>>
              /\ \A j \in DOMAIN seqsIn :
                   seqsIn[j] = seqsIn[k] => result[j] = result[k]

\* C5 witness: [A, B, A] with A sorted after B was demultiplexed, both
\* result files holding hit rows.
C5_Witness ==
    /\ dpc = "returned"
    /\ Len(seqsIn) = 3
    /\ seqsIn[1] = seqsIn[3]
    /\ seqsIn[1] # seqsIn[2]
    /\ StrLess(seqsIn[2], seqsIn[1])
    /\ envIn
    /\ hitsIn > 0
    /\ result[1] = result[3]
    /\ result[1] # result[2]

(***************************************************************************)
(* The demultiplexer on result files that hold, besides the null bytes the *)
(* service ends its entries with, one more null byte in any line           *)
(* (SpecResync).                                                           *)
(***************************************************************************)
\* the files with a null byte put into line l of file f
Damaged(fs, f, l) ==
    [i \in DOMAIN fs |->
        [j \in DOMAIN fs[i] |->
            IF i = f /\ j = l THEN WithNul(fs[i][j]) ELSE fs[i][j]]]

\* lines 170-179: the archive is downloaded and extracted
FetchDamaged ==
    /\ UNCHANGED nonDemuxVars
    /\ dpc = "fetch"
    /\ LET fs == ServiceFiles(query, hitsIn, envIn)
       IN  \E f \in DOMAIN fs : \E l \in DOMAIN fs[f] :
               files' = Damaged(fs, f, l)
    /\ fileIdx' = 1
    /\ dpc' = "open"
    /\ UNCHANGED <<seqsIn, envIn, hitsIn, unique_seqs, Ms, query, lineIdx,
                   update_M, M, a3m_lines, dErr, result>>

ResyncNext ==
    \/ Dedup
    \/ PostQuery
    \/ FetchDamaged
    \/ OpenA3m
    \/ ReadLine
    \/ ReturnA3m

IsPrefix(a, b) == Len(a) <= Len(b) /\ a = SubSeq(b, 1, Len(a))

\* the residue string the query gave tag t
SeqOfTag(t) == unique_seqs[t - N0 + 1]

\* no text holds a null byte, every tag's text begins with its own header
\* line and holds, in their order, lines of the entries of that tag only
C15_TextsClean ==
    /\ \A t \in DOMAIN a3m_lines :
         /\ \A k \in DOMAIN a3m_lines[t] : ~a3m_lines[t][k].nul
         /\ a3m_lines[t] # <<>>
         /\ a3m_lines[t][1] = HeaderLine(t)
         /\ t \in N0..(N0 + Len(unique_seqs) - 1)
         /\ IsPrefix(Join(a3m_lines[t]),
                     ServiceText(t, SeqOfTag(t), hitsIn, envIn))
    /\ dpc = "returned" =>
         \A k \in DOMAIN result :
             /\ \A j \in DOMAIN result[k] : ~result[k][j].nul
             /\ result[k] = ServiceText(Ms[k], seqsIn[k], hitsIn, envIn)
    /\ dpc = "raised" => dErr = "ValueError"

\* the line that a step of the loop of lines 219-230 reads
LineRead ==
    /\ dpc = "lines"
    /\ lineIdx <= Len(files[fileIdx])

\* the current tag changes only at a header line read while update_M is set
\* or holding a null byte itself; every other line goes to the current tag
C15_TagChanges ==
    LineRead =>
        LET line == files[fileIdx][lineIdx]
        IN  /\ M' # M => (line.gt /\ (update_M \/ line.nul))
            /\ (dErr' = "ok" /\ ~(line.gt /\ (update_M \/ line.nul))) =>
                 /\ M' = M
                 /\ a3m_lines' =
                      [a3m_lines EXCEPT ![M] = Append(@, StripNul(line))]
            /\ update_M' => (update_M \/ line.nul)

\* C15: every null byte is stripped from its line; the current tag changes
\* only at the first header line read at the start of a file or at or after
\* a line that held a null byte, and every other line, the header lines of
\* hit rows included, is appended to the current tag's text.  So no returned
\* text holds a null byte, each tag's text begins with its own header line,
\* and no line is attributed to a tag other than the one whose entry it is
\* in.
C15_Resynchronised ==
    /\ []C15_TextsClean
    /\ [][C15_TagChanges]_vars

\* C15 witness: the alignments of two tags were returned from two files, the
\* first of which held a null byte in the hit row that ends its first entry.
C15_Witness ==
    /\ dpc = "returned"
    /\ envIn
    /\ hitsIn = 1
    /\ Cardinality(Range(seqsIn)) > 1
    /\ files[1][4].nul
    /\ ~a3m_lines[N0][4].nul
    /\ a3m_lines[N0 + 1][1] = HeaderLine(N0 + 1)

(***************************************************************************)
(* runMMseqs2 as one call, lines 126-251.  The output directory of a mode  *)
(* holds nothing, or the archive downloaded for some earlier query with    *)
(* its extracted files.  svc is the status that ends the service loop.     *)
(***************************************************************************)
NoArchive == [held |-> FALSE, q |-> <<>>, m8 |-> {}]

\* the tags of a query text
TagsOf(q) == { q[i].num : i \in { j \in DOMAIN q : q[j].gt } }

\* lines 215-230 over one file and over all files
RECURSIVE DemuxLines(_, _)
DemuxLines(st, lines) ==
    IF lines = <<>> THEN st
    ELSE DemuxLines(DemuxLine(st, Head(lines)), Tail(lines))

RECURSIVE DemuxFiles(_, _)
DemuxFiles(st, fs) ==
    IF fs = <<>> THEN st
    ELSE DemuxFiles(DemuxLines(OpenFile(st), Head(fs)), Tail(fs))

\* lines 235-246: the template directory of every input position
TemplatePaths(tags, ut, m8) ==
    [k \in DOMAIN tags |->
        IF ut /\ tags[k] \in m8 THEN tags[k] ELSE None]

RunMMseqs2(sequences, env, ut, dk, svc, m8New) ==
    LET md    == Mode(env, TRUE)
        uniq  == UniqueSeqs(sequences)
        tags  == MsOf(sequences, uniq)
        q     == MakeQuery(uniq, N0)
        call  == NeedApi({ x \in DOMAIN dk : dk[x].held }, md)
        arch  == IF call
                 THEN [held |-> TRUE, q |-> q, m8 |-> m8New \cap TagsOf(q)]
                 ELSE dk[md]
        st    == DemuxFiles([a3m |-> <<>>, update_M |-> TRUE, M |-> None,
                             err |-> "ok"],
                            ServiceFiles(arch.q, MaxHits, env))
    IN  IF call /\ RaisesAfter(svc)
        THEN [err |-> "Exception", a3m |-> <<>>, tmpl |-> <<>>, disk |-> dk,
              net |-> TRUE]
        ELSE IF st.err # "ok"
        THEN [err |-> st.err, a3m |-> <<>>, tmpl |-> <<>>,
              disk |-> [dk EXCEPT ![md] = arch], net |-> call]
        ELSE IF ~ReturnOk(st.a3m, tags)
        THEN [err |-> "KeyError", a3m |-> <<>>, tmpl |-> <<>>,
              disk |-> [dk EXCEPT ![md] = arch], net |-> call]
        ELSE [err |-> "ok",
              a3m  |-> ReturnLines(st.a3m, tags),
              tmpl |-> TemplatePaths(tags, ut, arch.m8),
              disk |-> [dk EXCEPT ![md] = arch],
              net  |-> call]

(***************************************************************************)
(* getRawInputs, lines 36-78.                                              *)
(***************************************************************************)
RECURSIVE Flatten(_)
Flatten(qs) == IF qs = <<>> THEN <<>> ELSE Head(qs) \o Flatten(Tail(qs))

\* lines 48-55: unique sequences in order of first occurrence
RECURSIVE UniqueInOrder(_, _)
UniqueInOrder(seqs, acc) ==
    IF seqs = <<>> THEN acc
    ELSE UniqueInOrder(Tail(seqs),
                       IF Head(seqs) \in Range(acc) THEN acc
                       ELSE Append(acc, Head(seqs)))

\* a getRawInputs that asks the service in every mode
UseServiceAlways(mm, uniq) == uniq # <<>>

\* line 57: if msa_mode != 'single_sequence' and unique_sequences != []
UseService(mm, uniq) == mm # "single_sequence" /\ uniq # <<>>

\* line 70: f'>1\n{sequence}\n'
SingleRow(seq) == <<HeaderLine(1), RowLine(seq)>>

\* line 75: a3m.splitlines()[1], as the key of the cache
KeyOf(line) == IF line.gt THEN <<">">> ELSE line.row

\* lines 74-76: raw_inputs[sequence] = (a3m, templates)
RECURSIVE StoreRaw(_, _, _)
StoreRaw(raw, a3ms, tmpls) ==
    IF a3ms = <<>> THEN [err |-> "ok", raw |-> raw]
    ELSE IF Len(Head(a3ms)) < 2 THEN [err |-> "IndexError", raw |-> raw]
    ELSE LET k == KeyOf(Head(a3ms)[2])
             e == [a3m |-> Head(a3ms), tmpl |-> Head(tmpls)]
         IN  StoreRaw(IF k \in DOMAIN raw THEN [raw EXCEPT ![k] = e]
                      ELSE raw @@ (k :> e),
                      Tail(a3ms), Tail(tmpls))

GetRawInputs(qs, mm, ut, dk, svc, m8New) ==
    LET uniq == UniqueInOrder(Flatten(qs), <<>>)
    IN  IF UseService(mm, uniq)
        THEN LET r == RunMMseqs2(uniq, mm = "MMseqs2-U+E", ut, dk, svc, m8New)
                 s == StoreRaw(<<>>, r.a3m, r.tmpl)
             IN  [err   |-> IF r.err # "ok" THEN r.err ELSE s.err,
                  raw   |-> s.raw,
                  disk  |-> r.disk,
                  net   |-> r.net,
                  calls |-> 1]
        ELSE LET s == StoreRaw(<<>>,
                               [i \in DOMAIN uniq |-> SingleRow(uniq[i])],
                               [i \in DOMAIN uniq |-> None])
             IN  [err   |-> s.err,
                  raw   |-> s.raw,
                  disk  |-> dk,
                  net   |-> FALSE,
                  calls |-> 0]

(***************************************************************************)
(* Runs of getRawInputs against one output directory (SpecRaw).            *)
(***************************************************************************)
\* the queries of the model: a monomer [G], a hetero-dimer [AC, G] and
\* [G, AC, G], where G occurs twice
QueryPool == { << <<"G">> >>, << <<"A", "C">>, <<"G">> >>,
               << <<"G">>, <<"A", "C">>, <<"G">> >> }

QueryLists == UNION { [1..k -> QueryPool] : k \in 1..MaxQueries }

MsaModes == {"single_sequence", "MMseqs2-U", "MMseqs2-U+E"}

\* the modes getRawInputs can ask for (use_filter keeps its default, True)
RawModes == {"all", "env"}

FreshDisk == [md \in RawModes |-> NoArchive]

RawIdle ==
    /\ mpc = "idle"
    /\ queries = <<>>
    /\ msa_mode = "single_sequence"
    /\ use_templates = FALSE
    /\ disk = FreshDisk
    /\ raw_inputs = <<>>
    /\ mErr = "ok"
    /\ netReq = FALSE
    /\ apiCalls = 0
    /\ mruns = 0

RawInit ==
    /\ mpc = "init"
    /\ queries = <<>>
    /\ msa_mode = "single_sequence"
    /\ use_templates = FALSE
    /\ disk = FreshDisk
    /\ raw_inputs = <<>>
    /\ mErr = "ok"
    /\ netReq = FALSE
    /\ apiCalls = 0
    /\ mruns = 0

\* a run starts: run_af2.py lines 63-81, the arguments of getRawInputs
RawStart ==
    /\ UNCHANGED nonRawVars
    /\ mpc \in {"init", "returned", "raised"}
    /\ mruns < MaxRuns
    /\ queries' \in QueryLists
    /\ msa_mode' \in MsaModes
    /\ use_templates' \in BOOLEAN
    /\ mpc' = "raw"
    /\ raw_inputs' = <<>>
    /\ mErr' = "ok"
    /\ netReq' = FALSE
    /\ apiCalls' = 0
    /\ mruns' = mruns + 1
    /\ UNCHANGED disk

\* the m8 tables the service may put in an archive: no tag, or every tag
M8Choices == { {}, N0..(N0 + MaxChains) }

\* getRawInputs, lines 36-78
RawCall ==
    /\ UNCHANGED nonRawVars
    /\ mpc = "raw"
    /\ \E svc \in {"COMPLETE", "ERROR"}, m8New \in M8Choices :
         LET r == GetRawInputs(queries, msa_mode, use_templates, disk, svc,
                               m8New)
         IN  /\ raw_inputs' = r.raw
             /\ disk' = r.disk
             /\ mErr' = r.err
             /\ netReq' = r.net
             /\ apiCalls' = r.calls
             /\ mpc' = IF r.err = "ok" THEN "returned" ELSE "raised"
    /\ UNCHANGED <<queries, msa_mode, use_templates, mruns>>

RawNext ==
    \/ RawStart
    \/ RawCall

\* C6 (as claimed): after getRawInputs returns, the cache holds exactly one
\* entry for each distinct sequence of the queries, keyed by that sequence,
\* in every msa_mode and also when the alignments come from the service or
\* from an archive already in the output directory.
C6_CacheKeyedBySequence ==
    mpc = "returned" =>
        /\ DOMAIN raw_inputs = Range(Flatten(queries))
        /\ \A sq \in DOMAIN raw_inputs :
             /\ Len(raw_inputs[sq].a3m) >= 2
             /\ raw_inputs[sq].a3m[2] = RowLine(sq)

(***************************************************************************)
(* pad_sequences and pair_msa, lines 440-481.                              *)
(***************************************************************************)
\* '-' * n
Gaps(n) == [i \in 1..n |-> "-"]

\* ''.join(strings)
RECURSIVE Concat(_)
Concat(strs) == IF strs = <<>> THEN <<>> ELSE Head(strs) \o Concat(Tail(strs))

\* lines 461-464: one all-gap string per chain instance
RECURSIVE BlankSeq(_, _)
BlankSeq(qseqs, card) ==
    IF qseqs = <<>> THEN <<>>
    ELSE [j \in 1..Head(card) |-> Gaps(Len(Head(qseqs)))]
         \o BlankSeq(Tail(qseqs), Tail(card))

\* a pad that keeps the instance's own gap string: _blank_seq[pos:]
PadLineKeepOwn(line, blanks, pos) ==
    IF line.gt THEN line
    ELSE RowLine(Concat(SubSeq(blanks, 1, pos) \o <<line.row>>
                        \o SubSeq(blanks, pos + 1, Len(blanks))))

\* lines 474-478: a header is kept, a row is set into its instance's block
PadLine(line, blanks, pos) ==
    IF line.gt THEN line
    ELSE RowLine(Concat(SubSeq(blanks, 1, pos) \o <<line.row>>
                        \o SubSeq(blanks, pos + 2, Len(blanks))))

\* lines 470-478: the lines of one chain instance
RECURSIVE PadInstance(_, _, _)
PadInstance(text, blanks, pos) ==
    IF text = <<>> THEN <<>>
    ELSE IF Head(text) = EmptyLine THEN PadInstance(Tail(text), blanks, pos)
    ELSE <<PadLine(Head(text), blanks, pos)>>
         \o PadInstance(Tail(text), blanks, pos)

\* lines 466-479: for n, seq in enumerate(...): for j in range(card[n])
RECURSIVE PadFrom(_, _, _, _, _, _)
PadFrom(texts, card, blanks, n, j, pos) ==
    IF n > Len(texts) THEN <<>>
    ELSE IF j >= card[n] THEN PadFrom(texts, card, blanks, n + 1, 0, pos)
    ELSE PadInstance(texts[n], blanks, pos)
         \o PadFrom(texts, card, blanks, n, j + 1, pos + 1)

pad_sequences(texts, qseqs, card) ==
    PadFrom(texts, card, BlankSeq(qseqs, card), 1, 0, 0)

\* lines 446-449: how often each unique sequence occurs
Cardinalities(sequences, uniq) ==
    [i \in DOMAIN uniq |->
        Cardinality({ k \in DOMAIN sequences : sequences[k] = uniq[i] })]

\* lines 440-455
pair_msa(sequences, raw) ==
    LET uniq == UniqueInOrder(sequences, <<>>)
    IN  IF \E i \in DOMAIN uniq : uniq[i] \notin DOMAIN raw
        THEN [err |-> "KeyError", text |-> <<>>]
        ELSE [err  |-> "ok",
              text |-> pad_sequences([i \in DOMAIN uniq |-> raw[uniq[i]].a3m],
                                     uniq, Cardinalities(sequences, uniq))]

(***************************************************************************)
(* chain_break, lines 431-437.                                             *)
(***************************************************************************)
RECURSIVE ChainBreakFrom(_, _, _, _)
ChainBreakFrom(idx, Ls, L_prev, length) ==
    IF Len(Ls) <= 1 THEN idx
    ELSE ChainBreakFrom(
             [i \in DOMAIN idx |->
                 IF i > L_prev + Head(Ls) THEN idx[i] + length ELSE idx[i]],
             Tail(Ls), L_prev + Head(Ls), length)

\* a break that shifts everything behind the first chain once
ChainBreakOnce(idx, Ls) ==
    [i \in DOMAIN idx |->
        IF Len(Ls) > 1 /\ i > Head(Ls) THEN idx[i] + ChainBreakLength
        ELSE idx[i]]

chain_break(idx, Ls) == ChainBreakFrom(idx, Ls, 0, ChainBreakLength)

(***************************************************************************)
(* getCustomMSADict, getMSA and getChainFeatures, lines 254-428.           *)
(* A bundle records what its features were built from.                     *)
(***************************************************************************)
\* line 260 iterates over `onlyfile`; the name bound in line 258 is
\* `onlyfiles`, so the loop header raises NameError for every directory
getCustomMSADict(fs) == [err |-> "NameError", dict |-> <<>>]

\* notebook_utils.empty_placeholder_template_features(num_templates, num_res)
Placeholder(nt, nr) ==
    [kind |-> "placeholder", num_templates |-> nt, num_res |-> nr,
     dir |-> None]

\* make_template(sequence, a3m, template): hits searched in the directory
TemplateHits(seq, dir) ==
    [kind |-> "hits", num_templates |-> -1, num_res |-> Len(seq),
     dir |-> dir]

NoFeatures == [kind |-> "none", num_templates |-> -1, num_res |-> -1,
               dir |-> None]

\* lines 372-390: the template features of one chain
ChainTemplate(seq, raw, ut, ctmpl) ==
    IF ctmpl THEN [err |-> "NameError", tmpl |-> NoFeatures]
    ELSE IF ut
    THEN IF seq \notin DOMAIN raw
         THEN [err |-> "KeyError", tmpl |-> NoFeatures]
         ELSE IF raw[seq].tmpl = None
         THEN [err |-> "ok", tmpl |-> Placeholder(0, Len(seq))]
         ELSE [err |-> "ok", tmpl |-> TemplateHits(seq, raw[seq].tmpl)]
    ELSE [err |-> "ok", tmpl |-> Placeholder(0, Len(seq))]

\* lines 350-357 with getMSA, lines 293-308: the MSA features of one chain
ChainMsa(seq, raw, dict) ==
    IF seq \in DOMAIN dict
    THEN [err |-> "ok", src |-> "none", msa |-> <<>>]
    ELSE IF raw = <<>>
    THEN [err |-> "UnboundLocalError", src |-> "none", msa |-> <<>>]
    ELSE IF seq \notin DOMAIN raw
    THEN [err |-> "KeyError", src |-> "none", msa |-> <<>>]
    ELSE [err |-> "ok", src |-> "raw", msa |-> raw[seq].a3m]

RangeFrom0(n) == [i \in 1..n |-> i - 1]

\* lines 344-393: the bundle of one chain
ChainBundle(seq, sequences, raw, ut, dict, ctmpl) ==
    LET m == ChainMsa(seq, raw, dict)
        t == ChainTemplate(seq, raw, ut, ctmpl)
    IN  [err |-> IF m.err # "ok" THEN m.err ELSE t.err,
         b   |-> [path    |-> "chain",
                  seq     |-> seq,
                  num_res |-> Len(seq),
                  msaSrc  |-> m.src,
                  msa     |-> m.msa,
                  allSeq  |-> Cardinality(Range(sequences)) > 1,
                  tmpl    |-> t.tmpl,
                  residue_index |-> RangeFrom0(Len(seq)),
                  asym_id |-> <<>>]]

RECURSIVE ChainLoop(_, _, _, _, _, _, _)
ChainLoop(sequences, i, acc, raw, ut, dict, ctmpl) ==
    IF i > Len(sequences) THEN [err |-> "ok", at |-> "none", feats |-> acc]
    ELSE LET c == ChainBundle(sequences[i], sequences, raw, ut, dict, ctmpl)
         IN  IF c.err # "ok"
             THEN [err |-> c.err, at |-> "getChainFeatures", feats |-> <<>>]
             ELSE ChainLoop(sequences, i + 1, Append(acc, c.b), raw, ut, dict,
                            ctmpl)

\* [int(n) for n, l in enumerate(Ls) for _ in range(0, l)]
RECURSIVE AsymIds(_, _)
AsymIds(Ls, n) ==
    IF Ls = <<>> THEN <<>>
    ELSE [i \in 1..Head(Ls) |-> n] \o AsymIds(Tail(Ls), n + 1)

\* lines 395-426: one bundle for the concatenated chains
ConcatBundle(sequences, raw) ==
    LET p     == pair_msa(sequences, raw)
        total == Concat(sequences)
        Ls    == [i \in DOMAIN sequences |-> Len(sequences[i])]
    IN  IF p.err # "ok"
        THEN [err |-> p.err, at |-> "getChainFeatures", feats |-> <<>>]
        ELSE [err |-> "ok", at |-> "none",
              feats |-> << [path    |-> "concat",
                            seq     |-> total,
                            num_res |-> Len(total),
                            msaSrc  |-> "paired",
                            msa     |-> p.text,
                            allSeq  |-> FALSE,
                            tmpl    |-> Placeholder(
                                0, Len(sequences[Len(sequences)])),
                            residue_index |->
                                chain_break(RangeFrom0(Len(total)), Ls),
                            asym_id |-> AsymIds(Ls, 0)] >>]

getChainFeatures(sequences, raw, ut, cmsa, ctmpl, um) ==
    LET cd == IF cmsa.given THEN getCustomMSADict(cmsa.files)
              ELSE [err |-> "ok", dict |-> <<>>]
    IN  IF cd.err # "ok"
        THEN [err |-> cd.err, at |-> "getCustomMSADict", feats |-> <<>>]
        ELSE IF Len(sequences) = 1 \/ um
        THEN ChainLoop(sequences, 1, <<>>, raw, ut, cd.dict, ctmpl)
        ELSE ConcatBundle(sequences, raw)

\* getInputFeatures, lines 484-511
getInputFeatures(sequences, feats, um) ==
    IF Len(sequences) = 1 \/ ~um
    THEN [assembly |-> "chainA", chains |-> <<feats[1]>>]
    ELSE [assembly |-> "paired", chains |-> feats]

(***************************************************************************)
(* main, run_af2.py lines 63-155: one run on a fresh output directory      *)
(* (SpecMain).                                                             *)
(***************************************************************************)
NoCustom == [given |-> FALSE, files |-> <<>>]

\* a custom-alignment directory, as the primary sequences of its .a3m files:
\* none given, an empty one, one alignment for G, two alignments for G
CustomDirs ==
    { NoCustom,
      [given |-> TRUE, files |-> <<>>],
      [given |-> TRUE, files |-> << <<"G">> >>],
      [given |-> TRUE, files |-> << <<"G">>, <<"G">> >>] }

\* the directory holds two alignments of one sequence, or none at all
ConfigError(d) ==
    /\ d.given
    /\ \/ d.files = <<>>
       \/ \E i, j \in DOMAIN d.files : i # j /\ d.files[i] = d.files[j]

ModelNameLists ==
    { <<"model_1_ptm">>, <<"model_1_multimer">>,
      <<"model_1_ptm", "model_1_multimer">> }

\* 'multimer' in model_name
IsMultimerName(name) == name = "model_1_multimer"

MainIdle ==
    /\ customMsa = NoCustom
    /\ customTmpl = FALSE
    /\ model_names = <<>>
    /\ modelIdx = 0
    /\ queryIdx = 0
    /\ features_for_chain = <<>>
    /\ input_features = <<>>
    /\ errAt = "none"

MainInit ==
    /\ mpc = "raw"
    /\ queries \in QueryLists
    /\ msa_mode \in MsaModes
    /\ use_templates \in BOOLEAN
    /\ disk = FreshDisk
    /\ raw_inputs = <<>>
    /\ mErr = "ok"
    /\ netReq = FALSE
    /\ apiCalls = 0
    /\ mruns = 1
    /\ customMsa \in CustomDirs
    /\ customTmpl \in BOOLEAN
    /\ model_names \in ModelNameLists
    /\ modelIdx = 0
    /\ queryIdx = 0
    /\ features_for_chain = <<>>
    /\ input_features = <<>>
    /\ errAt = "none"

\* lines 75-95: getRawInputs, then the model names
MainGetRawInputs ==
    /\ UNCHANGED nonMainVars
    /\ mpc = "raw"
    /\ \E svc \in {"COMPLETE", "ERROR"}, m8New \in M8Choices :
         LET r == GetRawInputs(queries, msa_mode, use_templates, disk, svc,
                               m8New)
         IN  /\ raw_inputs' = r.raw
             /\ disk' = r.disk
             /\ mErr' = r.err
             /\ errAt' = IF r.err = "ok" THEN "none" ELSE "getRawInputs"
             /\ netReq' = r.net
             /\ apiCalls' = r.calls
             /\ mpc' = IF r.err = "ok" THEN "loop" ELSE "raised"
    /\ modelIdx' = 1
    /\ queryIdx' = 1
    /\ UNCHANGED <<queries, msa_mode, use_templates, mruns, customMsa,
                   customTmpl, model_names, features_for_chain,
                   input_features>>

\* lines 125-130: the queries a model skips
Skips(name, qry) ==
    \/ Len(qry) > 1 /\ ~IsMultimerName(name)
    \/ Len(qry) = 1 /\ IsMultimerName(name)

\* lines 106-143: the next (model, query) pair of the two loops
LoopStep ==
    /\ UNCHANGED nonMainVars
    /\ mpc = "loop"
    /\ IF modelIdx > Len(model_names)
       THEN /\ mpc' = "done"
            /\ UNCHANGED <<modelIdx, queryIdx>>
       ELSE IF queryIdx > Len(queries)
       THEN /\ modelIdx' = modelIdx + 1
            /\ queryIdx' = 1
            /\ mpc' = "loop"
       ELSE IF Skips(model_names[modelIdx], queries[queryIdx])
       THEN /\ queryIdx' = queryIdx + 1
            /\ mpc' = "loop"
            /\ UNCHANGED modelIdx
       ELSE /\ mpc' = "chain"
            /\ UNCHANGED <<modelIdx, queryIdx>>
    /\ UNCHANGED <<queries, msa_mode, use_templates, disk, raw_inputs, mErr,
                   netReq, apiCalls, mruns, customMsa, customTmpl,
                   model_names, features_for_chain, input_features, errAt>>

\* lines 145-150: getChainFeatures(...); use_multimer keeps its default
MainGetChainFeatures ==
    /\ UNCHANGED nonMainVars
    /\ mpc = "chain"
    /\ LET r == getChainFeatures(queries[queryIdx], raw_inputs, use_templates,
                                 customMsa, customTmpl, TRUE)
       IN  /\ features_for_chain' = r.feats
           /\ mErr' = r.err
           /\ errAt' = r.at
           /\ mpc' = IF r.err = "ok" THEN "input" ELSE "raised"
    /\ UNCHANGED <<queries, msa_mode, use_templates, disk, raw_inputs,
                   netReq, apiCalls, mruns, customMsa, customTmpl,
                   model_names, modelIdx, queryIdx, input_features>>

\* lines 152-155: getInputFeatures(...); the prediction is out of scope
MainGetInputFeatures ==
    /\ UNCHANGED nonMainVars
    /\ mpc = "input"
    /\ input_features' =
         getInputFeatures(queries[queryIdx], features_for_chain, TRUE)
    /\ queryIdx' = queryIdx + 1
    /\ mpc' = "loop"
    /\ UNCHANGED <<queries, msa_mode, use_templates, disk, raw_inputs, mErr,
                   netReq, apiCalls, mruns, customMsa, customTmpl,
                   model_names, modelIdx, features_for_chain, errAt>>

MainNext ==
    \/ MainGetRawInputs
    \/ LoopStep
    \/ MainGetChainFeatures
    \/ MainGetInputFeatures

\* C7: in msa_mode single_sequence getRawInputs never calls runMMseqs2 and
\* sends nothing to the service; every distinct sequence S gets the text
\* '>1\nS\n' and no template directory, and every per-chain bundle built from
\* it carries the zero-template placeholder.
C7_SingleSequenceOffline ==
    (msa_mode = "single_sequence" /\ mpc # "raw") =>
        /\ apiCalls = 0
        /\ ~netReq
        /\ disk = FreshDisk
        /\ errAt # "getRawInputs"
        /\ DOMAIN raw_inputs = Range(Flatten(queries))
        /\ \A sq \in DOMAIN raw_inputs :
             raw_inputs[sq] =
                 [a3m |-> <<HeaderLine(1), RowLine(sq)>>, tmpl |-> None]
        /\ \A i \in DOMAIN features_for_chain :
             /\ features_for_chain[i].path = "chain"
             /\ features_for_chain[i].tmpl =
                    Placeholder(0, Len(features_for_chain[i].seq))

\* C7 witness: a two-chain query was featurized in single_sequence mode with
\* template search requested.
C7_Witness ==
    /\ msa_mode = "single_sequence"
    /\ use_templates
    /\ mpc = "input"
    /\ Len(features_for_chain) = 2
    /\ features_for_chain[1].seq = <<"A", "C">>
    /\ features_for_chain[1].msa = <<HeaderLine(1), RowLine(<<"A", "C">>)>>
    /\ features_for_chain[1].tmpl.num_res = 2

\* C8 (as claimed): when a custom alignment is supplied for a chain's
\* sequence, getChainFeatures returns a bundle for that chain whose MSA
\* features are built from the custom alignment alone.
C8_CustomAlignmentWins ==
    ( /\ mpc \in {"input", "raised"}
      /\ errAt # "getRawInputs"
      /\ customMsa.given
      /\ \E i \in DOMAIN customMsa.files :
           customMsa.files[i] \in Range(queries[queryIdx]) )
    => /\ mpc = "input"
       /\ \A k \in DOMAIN features_for_chain :
            features_for_chain[k].seq \in Range(customMsa.files)
                => features_for_chain[k].msaSrc = "custom"

\* C9 (as claimed): an error of the custom-alignment input (two files with
\* the same primary sequence, or a directory that yields no alignment) is
\* raised before any request is sent to the alignment service.
C9_ConfigErrorBeforeNetwork ==
    (ConfigError(customMsa) /\ mpc = "raised" /\ errAt = "getCustomMSADict")
        => ~netReq

\* the loops of main move past the query at queryIdx
PastQuery ==
    /\ modelIdx \in DOMAIN model_names
    /\ queryIdx \in DOMAIN queries
    /\ queryIdx' = queryIdx + 1

\* C13 (as claimed): for every (query, model) pair of a run, a query of two or
\* more sequences under a non-multimer model is featurized by the
\* concatenation path, one under a multimer model is featurized per chain and
\* then paired, a single-sequence query yields its chain-A bundle unchanged,
\* and the paired assembly runs only for two or more sequences under a
\* multimer model.
C13_QueryShapeDispatch ==
    [][PastQuery =>
        LET q     == queries[queryIdx]
            multi == IsMultimerName(model_names[modelIdx])
        IN  /\ (Len(q) >= 2 /\ ~multi) =>
                 /\ mpc = "input"
                 /\ input_features'.assembly = "chainA"
                 /\ input_features'.chains[1].path = "concat"
            /\ (Len(q) >= 2 /\ multi) =>
                 /\ mpc = "input"
                 /\ input_features'.assembly = "paired"
                 /\ Len(input_features'.chains) = Len(q)
                 /\ \A k \in DOMAIN input_features'.chains :
                      input_features'.chains[k].path = "chain"
            /\ (Len(q) = 1 /\ mpc = "input") =>
                 /\ input_features'.assembly = "chainA"
                 /\ input_features'.chains = <<features_for_chain[1]>>
            /\ (mpc = "input" /\ input_features'.assembly = "paired") =>
                 (Len(q) >= 2 /\ multi)]_vars

(***************************************************************************)
(* A call of pad_sequences, lines 458-481, one chain instance per step     *)
(* (SpecPad).                                                              *)
(***************************************************************************)
\* an aligned row with an insertion (a lower-case character of a3m)
InsRow(seq) == <<Head(seq), "a">> \o Tail(seq)

\* the alignments of one chain: the query alone; the query and a hit row with
\* a deletion; the query and a hit row with an insertion, and a blank line
AlnPool(seq) ==
    { SingleRow(seq),
      Entry(N0, seq, "uniref", 1),
      <<HeaderLine(N0), RowLine(seq), HitHeader, RowLine(InsRow(seq)),
        EmptyLine>> }

\* lists of distinct residue strings, as pair_msa builds them
DistinctLists(n) ==
    { l \in UNION { [1..k -> SeqPool] : k \in 1..n } :
        \A i, j \in DOMAIN l : i # j => l[i] # l[j] }

PadIdle ==
    /\ ppc = "idle"
    /\ pTexts = <<>>
    /\ pSeqs = <<>>
    /\ pCard = <<>>
    /\ blank = <<>>
    /\ pN = 0
    /\ pJ = 0
    /\ pPos = 0
    /\ combined = <<>>
    /\ origin = <<>>
    /\ padOut = <<>>

PadInit ==
    /\ ppc = "start"
    /\ pSeqs \in DistinctLists(MaxDistinct)
    /\ pCard \in [DOMAIN pSeqs -> 1..MaxCopies]
    /\ pTexts \in [DOMAIN pSeqs -> UNION { AlnPool(sq) : sq \in SeqPool }]
    /\ \A i \in DOMAIN pSeqs : pTexts[i] \in AlnPool(pSeqs[i])
    /\ blank = <<>>
    /\ pN = 0
    /\ pJ = 0
    /\ pPos = 0
    /\ combined = <<>>
    /\ origin = <<>>
    /\ padOut = <<>>

\* lines 461-467
PadStart ==
    /\ UNCHANGED nonPadVars
    /\ ppc = "start"
    /\ blank' = BlankSeq(pSeqs, pCard)
    /\ pN' = 1
    /\ pJ' = 0
    /\ pPos' = 0
    /\ ppc' = "loop"
    /\ UNCHANGED <<pTexts, pSeqs, pCard, combined, origin, padOut>>

\* the lines of a text that pad_sequences keeps, with where they are from
RECURSIVE OriginOf(_, _, _)
OriginOf(text, n, pos) ==
    IF text = <<>> THEN <<>>
    ELSE IF Head(text) = EmptyLine THEN OriginOf(Tail(text), n, pos)
    ELSE <<[chain |-> n, inst |-> pos, src |-> Head(text)]>>
         \o OriginOf(Tail(text), n, pos)

\* lines 468-479: one pass of `for j in range(0, query_cardinality[n])`
PadStep ==
    /\ UNCHANGED nonPadVars
    /\ ppc = "loop"
    /\ pN <= Len(pSeqs)
    /\ combined' = combined \o PadInstance(pTexts[pN], blank, pPos)
    /\ origin' = origin \o OriginOf(pTexts[pN], pN, pPos)
    /\ pPos' = pPos + 1
    /\ IF pJ + 1 < pCard[pN]
       THEN /\ pJ' = pJ + 1
            /\ pN' = pN
       ELSE /\ pJ' = 0
            /\ pN' = pN + 1
    /\ UNCHANGED <<ppc, pTexts, pSeqs, pCard, blank, padOut>>

\* line 481: return '\n'.join(a3m_lines_combined)
PadReturn ==
    /\ UNCHANGED nonPadVars
    /\ ppc = "loop"
    /\ pN > Len(pSeqs)
    /\ padOut' = combined
    /\ ppc' = "done"
    /\ UNCHANGED <<pTexts, pSeqs, pCard, blank, pN, pJ, pPos, combined,
                   origin>>

PadNext ==
    \/ PadStart
    \/ PadStep
    \/ PadReturn

\* columns of an a3m row: its characters that are no insertion
Cols(row) == Cardinality({ i \in DOMAIN row : row[i] # "a" })

RECURSIVE SumTo(_, _)
SumTo(f, n) == IF n = 0 THEN 0 ELSE f[n] + SumTo(f, n - 1)

\* the total length: sum over chains of copy count times chain length
TotalCols ==
    SumTo([n \in DOMAIN pSeqs |-> pCard[n] * Len(pSeqs[n])], Len(pSeqs))

\* columns in front of the block of the c-th copy (0-based) of chain n
BlockStart(n, c) ==
    SumTo([m \in DOMAIN pSeqs |-> pCard[m] * Len(pSeqs[m])], n - 1)
        + c * Len(pSeqs[n])

\* the copy (0-based) of chain n that instance number inst is
CopyOf(n, inst) == inst - SumTo(pCard, n - 1)

\* C10: every row of the combined alignment has the same column count, the
\* sum over chains of copy count times chain length, and a row coming from
\* one chain instance has its residues in that instance's column block and
\* only gap characters in the blocks of all other instances.
C10_BlockDiagonal ==
    /\ Len(origin) = Len(combined)
    /\ \A i \in DOMAIN combined :
         LET o == origin[i]
             c == CopyOf(o.chain, o.inst)
             b == BlockStart(o.chain, c)
         IN  /\ c \in 0..(pCard[o.chain] - 1)
             /\ combined[i].gt = o.src.gt
             /\ o.src.gt => combined[i] = o.src
             /\ ~o.src.gt =>
                  /\ Cols(combined[i].row) = TotalCols
                  /\ combined[i].row =
                       Gaps(b) \o o.src.row
                           \o Gaps(TotalCols - b - Len(pSeqs[o.chain]))
    /\ ppc = "done" => padOut = combined

\* C10 witness: chains of lengths 2 and 1 with one and two copies; a row of
\* the first chain, with an insertion, is padded to 2 + 2*1 columns with gaps
\* in the columns of both copies of the second chain.
C10_Witness ==
    /\ ppc = "done"
    /\ pSeqs = << <<"A", "C">>, <<"G">> >>
    /\ pCard = <<1, 2>>
    /\ \E i \in DOMAIN padOut :
         /\ origin[i].chain = 1
         /\ padOut[i].row = <<"A", "a", "C", "-", "-">>
    /\ \E i \in DOMAIN padOut :
         /\ origin[i].inst = 2
         /\ padOut[i].row = <<"-", "-", "-", "G">>

(***************************************************************************)
(* One call of getChainFeatures, lines 329-428, followed by one call of    *)
(* getInputFeatures, lines 484-511, with any use_multimer (SpecFeat).  The *)
(* raw inputs are what getRawInputs returns for the same sequences on a    *)
(* fresh output directory.                                                 *)
(***************************************************************************)
NoResult == [err |-> "ok", at |-> "none", feats |-> <<>>]

NoInput == [assembly |-> "none", chains |-> <<>>]

FeatIdle ==
    /\ fpc = "idle"
    /\ fSeqs = <<>>
    /\ fRaw = <<>>
    /\ fUt = FALSE
    /\ fCtmpl = FALSE
    /\ fUm = TRUE
    /\ fOut = NoResult
    /\ fIn = NoInput

FeatInit ==
    /\ fpc = "start"
    /\ fSeqs \in SeqLists(MaxChains)
    /\ fUt \in BOOLEAN
    /\ fCtmpl \in BOOLEAN
    /\ fUm \in BOOLEAN
    /\ \E mm \in MsaModes, m8New \in M8Choices :
         fRaw = GetRawInputs(<<fSeqs>>, mm, fUt, FreshDisk, "COMPLETE",
                             m8New).raw
    /\ fOut = NoResult
    /\ fIn = NoInput

\* features_for_chain = getChainFeatures(sequences, raw_inputs, ...)
FeatGetChainFeatures ==
    /\ UNCHANGED nonFeatVars
    /\ fpc = "start"
    /\ fOut' = getChainFeatures(fSeqs, fRaw, fUt, NoCustom, fCtmpl, fUm)
    /\ fpc' = IF fOut'.err = "ok" THEN "chain" ELSE "raised"
    /\ UNCHANGED <<fSeqs, fRaw, fUt, fCtmpl, fUm, fIn>>

\* input_features = getInputFeatures(sequences, features_for_chain, ...)
FeatGetInputFeatures ==
    /\ UNCHANGED nonFeatVars
    /\ fpc = "chain"
    /\ fIn' = getInputFeatures(fSeqs, fOut.feats, fUm)
    /\ fpc' = "done"
    /\ UNCHANGED <<fSeqs, fRaw, fUt, fCtmpl, fUm, fOut>>

FeatNext ==
    \/ FeatGetChainFeatures
    \/ FeatGetInputFeatures

\* the bundle of the concatenation path has been built
Concatenated ==
    /\ fpc \in {"chain", "done"}
    /\ Len(fSeqs) > 1
    /\ ~fUm

\* the columns in front of the i-th sequence of the query
OffsetOf(sequences, i) == Len(Concat(SubSeq(sequences, 1, i - 1)))

\* C11 (as claimed): in the combined alignment of a query the column blocks
\* are ordered as the sequences appear in the query, so the query row of the
\* i-th sequence lies in the i-th block, at the columns the i-th sequence has
\* in the concatenated query sequence, with gaps in all other columns.
C11_BlocksInQueryOrder ==
    Concatenated =>
        \A i \in DOMAIN fSeqs :
            LET b == OffsetOf(fSeqs, i)
                total == Len(Concat(fSeqs))
            IN  \E k \in DOMAIN fOut.feats[1].msa :
                    /\ ~fOut.feats[1].msa[k].gt
                    /\ fOut.feats[1].msa[k].row =
                         Gaps(b) \o fSeqs[i]
                             \o Gaps(total - b - Len(fSeqs[i]))

\* the chain (1-based) that position p (1-based) of the concatenation is in
ChainOf(sequences, p) ==
    CHOOSE k \in DOMAIN sequences :
        /\ OffsetOf(sequences, k) < p
        /\ p <= OffsetOf(sequences, k) + Len(sequences[k])

\* C12: in the bundle of the concatenation path residue_index grows by 1 from
\* residue to residue inside a chain, jumps by at least the break offset at
\* every chain boundary, and every residue of the k-th chain (0-based) is
\* shifted by k times the offset against its position in the concatenation.
C12_ChainBreakMonotone ==
    Concatenated =>
        LET ri == fOut.feats[1].residue_index
            n  == Len(Concat(fSeqs))
        IN  /\ Len(ri) = n
            /\ \A p \in 1..n :
                 ri[p] = (p - 1) + (ChainOf(fSeqs, p) - 1) * ChainBreakLength
            /\ \A p \in 1..(n - 1) :
                 IF ChainOf(fSeqs, p) = ChainOf(fSeqs, p + 1)
                 THEN ri[p + 1] = ri[p] + 1
                 ELSE ri[p + 1] >= ri[p] + ChainBreakLength

\* C12 witness: three chains of lengths 2, 1, 2 were concatenated; the last
\* chain is shifted by twice the offset.
C12_Witness ==
    /\ Concatenated
    /\ fSeqs = << <<"A", "C">>, <<"G">>, <<"A", "C">> >>
    /\ fOut.feats[1].residue_index = <<0, 1, 202, 403, 404>>

\* C16 (as claimed): every zero-templates placeholder that getChainFeatures
\* puts into a bundle is built for zero templates and for the residue count
\* of that bundle: the chain's length in the per-chain path, the length of
\* the concatenated sequence in the concatenation path.
C16_PlaceholderShaped ==
    fpc \in {"chain", "done"} =>
        \A i \in DOMAIN fOut.feats :
            fOut.feats[i].tmpl.kind = "placeholder" =>
                /\ fOut.feats[i].tmpl.num_templates = 0
                /\ fOut.feats[i].tmpl.num_res = fOut.feats[i].num_res
                /\ fOut.feats[i].num_res = Len(fOut.feats[i].seq)

(***************************************************************************)
(* Specifications.                                                         *)
(***************************************************************************)
ClientIdle == ClientInit

InitClient == ClientInit /\ DemuxIdle /\ RawIdle /\ MainIdle /\ PadIdle /\ FeatIdle

SpecClient == InitClient /\ [][ClientNext]_vars

InitDemux == DemuxInit /\ ClientIdle /\ RawIdle /\ MainIdle /\ PadIdle /\ FeatIdle

SpecDemux == InitDemux /\ [][DemuxNext]_vars

InitRaw == RawInit /\ ClientIdle /\ DemuxIdle /\ MainIdle /\ PadIdle /\ FeatIdle

SpecRaw == InitRaw /\ [][RawNext]_vars

InitMain == MainInit /\ ClientIdle /\ DemuxIdle /\ PadIdle /\ FeatIdle

SpecMain == InitMain /\ [][MainNext]_vars

InitPad == PadInit /\ ClientIdle /\ DemuxIdle /\ RawIdle /\ MainIdle /\ FeatIdle

SpecPad == InitPad /\ [][PadNext]_vars

InitFeat ==
    FeatInit /\ ClientIdle /\ DemuxIdle /\ RawIdle /\ MainIdle /\ PadIdle

SpecFeat == InitFeat /\ [][FeatNext]_vars

SpecPoll == InitClient /\ [][PollNext]_vars /\ PollFairness

SpecResync == InitDemux /\ [][ResyncNext]_vars

====
